---------------------------- MODULE Spec2Model ----------------------------
(***************************************************************************)
(* Model of sagemaker/29_deploy_llms_on_inferentia2/sagemaker-notebook.    *)
(* The notebook is a straight-line program: its code cells run top to      *)
(* bottom in one kernel, every statement that calls an external service    *)
(* either returns or raises, and an uncaught exception ends the run.       *)
(*                                                                         *)
(* The kernel's global names are the variable ns (name -> value).  The     *)
(* two constants a user edits, batch_size and sequence_length, are inputs  *)
(* of the configuration cell and are drawn from bounded sets.              *)
(***************************************************************************)
EXTENDS Integers, Sequences, FiniteSets, TLC

(***************************************************************************)
(* Python integers.  A Python int is unbounded; products of the two        *)
(* inputs are carried in two limbs so that values beyond 2^53, where the   *)
(* float division of the configuration cell stops being exact, can be      *)
(* computed.  [hi |-> h, lo |-> l] is h * Base + l with 0 <= l < Base.     *)
(* Only non-negative values are modelled.                                  *)
(***************************************************************************)
LimbBits == 27

Base == 2 ^ LimbBits

PyInt(n) == [hi |-> n \div Base, lo |-> n % Base]

\* x * k for a multiplier k of a few bits (a batch size): int.__mul__
IntMul(x, k) == [hi |-> x.hi * k + (x.lo * k) \div Base, lo |-> (x.lo * k) % Base]

\* x // 2 on integers (exact floor)
IntHalf(x) == [hi |-> x.hi \div 2, lo |-> ((x.hi % 2) * Base + x.lo) \div 2]

RECURSIVE Bits(_)
Bits(n) == IF n = 0 THEN 0 ELSE 1 + Bits(n \div 2)

\* int.bit_length()
BitLength(x) == IF x.hi = 0 THEN Bits(x.lo) ELSE LimbBits + Bits(x.hi)

(***************************************************************************)
(* Python floats are IEEE-754 binary64: 53 significant bits.  The true     *)
(* division int / int returns the double nearest to the exact quotient,    *)
(* ties to even.  For a divisor of 2 the quotient of p is exact while p    *)
(* has at most 53 bits; beyond that the quotient is p rounded to 53        *)
(* significant bits, halved.  A double d that is a multiple of 1/2 is      *)
(* held as [twice |-> 2 * d].                                              *)
(***************************************************************************)
DBL_MANT_DIG == 53

\* p rounded to a multiple of 2^k, ties to the even multiple (0 <= k < LimbBits)
RoundHalfEven(p, k) ==
    LET unit == 2 ^ k
        r    == p.lo % unit
        odd  == (p.lo \div unit) % 2 = 1
        up   == k > 0 /\ (2 * r > unit \/ (2 * r = unit /\ odd))
        l    == p.lo - r + (IF up THEN unit ELSE 0)
    IN  [hi |-> p.hi + l \div Base, lo |-> l % Base]

\* p / 2 : int.__truediv__ (a p too large for a double, from about 2^1024,
\* raises OverflowError; the inputs modelled stay far below)
TrueDiv2(p) ==
    LET excess == BitLength(p) - DBL_MANT_DIG
    IN  [twice |-> IF excess <= 0 THEN p ELSE RoundHalfEven(p, excess)]

\* int(d) for a non-negative double d: truncation
IntOfFloat(d) == IntHalf(d.twice)

(***************************************************************************)
(* Strings are sequences of one-character strings.  json.dumps of an int   *)
(* is its decimal numeral.                                                 *)
(***************************************************************************)
DigitChars == <<"0", "1", "2", "3", "4", "5", "6", "7", "8", "9">>

IntDiv10(x) == [hi |-> x.hi \div 10, lo |-> ((x.hi % 10) * Base + x.lo) \div 10]

IntMod10(x) == ((x.hi % 10) * Base + x.lo) % 10

RECURSIVE Numeral(_)
Numeral(x) ==
    IF x.hi = 0 /\ x.lo < 10
    THEN <<DigitChars[x.lo + 1]>>
    ELSE Append(Numeral(IntDiv10(x)), DigitChars[IntMod10(x) + 1])

\* json.dumps(x) for an int x
json_dumps(x) == Numeral(x)


(***************************************************************************)
(* Literals of the notebook.                                               *)
(***************************************************************************)
NotebookBatchSize == 4

NotebookSequenceLength == 2048

MAX_INPUT_LENGTH == 1512

max_new_tokens == 256

health_check_timeout == 900

HF_MODEL_ID == "aws-neuron/zephyr-7b-seqlen-2048-bs-4-cores-2"

\* the generation arguments of the chat cell
payload ==
    [do_sample |-> TRUE, top_p |-> "0.6", temperature |-> "0.9", top_k |-> 50,
     max_new_tokens |-> max_new_tokens, repetition_penalty |-> "1.03",
     return_full_text |-> FALSE, stop |-> <<"</s>">>]

(***************************************************************************)
(* Bounds of the model.                                                    *)
(***************************************************************************)
MaxBatch == 4

MaxSeqSmall == 2

MaxSlack == 1

MaxLow == 3

MaxPromptLen == 2

MaxGenLen == 3

\* values a user may give batch_size
BatchSizes == (0 .. MaxBatch) \cup {NotebookBatchSize}

\* values a user may give sequence_length: tiny ones, the notebook's, the
\* neighbourhoods of MAX_INPUT_LENGTH and of MAX_INPUT_LENGTH + max_new_tokens,
\* and values just above 2^53
SequenceLengths ==
    {PyInt(n) : n \in 0 .. MaxSeqSmall}
    \cup {PyInt(NotebookSequenceLength)}
    \cup {PyInt(MAX_INPUT_LENGTH + d) : d \in (0 - MaxSlack) .. MaxSlack}
    \cup {PyInt(MAX_INPUT_LENGTH + max_new_tokens + d) : d \in (0 - MaxSlack) .. MaxSlack}
    \cup {[hi |-> 2 ^ (DBL_MANT_DIG - LimbBits), lo |-> l] : l \in 0 .. MaxLow}

Chars == {"a", "b"}

Texts(lo, hi) == UNION {[1 .. k -> Chars] : k \in lo .. hi}

(***************************************************************************)
(* The configuration cell.                                                 *)
(***************************************************************************)
\* BuildConfig without the int(...) around the division: json.dumps of the float
BuildConfigFloatPrefill(b, s) ==
    LET d == TrueDiv2(IntMul(s, b))
    IN  [HF_MODEL_ID              |-> HF_MODEL_ID,
         MAX_CONCURRENT_REQUESTS  |-> json_dumps(PyInt(b)),
         MAX_INPUT_LENGTH         |-> json_dumps(PyInt(MAX_INPUT_LENGTH)),
         MAX_TOTAL_TOKENS         |-> json_dumps(s),
         MAX_BATCH_PREFILL_TOKENS |-> json_dumps(IntHalf(d.twice))
                                      \o <<".", IF d.twice.lo % 2 = 1 THEN "5" ELSE "0">>,
         MAX_BATCH_TOTAL_TOKENS   |-> json_dumps(IntMul(s, b))]

\* BuildConfig with MAX_INPUT_LENGTH taken from the sequence length
BuildConfigInputIsSequence(b, s) ==
    [HF_MODEL_ID              |-> HF_MODEL_ID,
     MAX_CONCURRENT_REQUESTS  |-> json_dumps(PyInt(b)),
     MAX_INPUT_LENGTH         |-> json_dumps(s),
     MAX_TOTAL_TOKENS         |-> json_dumps(s),
     MAX_BATCH_PREFILL_TOKENS |-> json_dumps(IntOfFloat(TrueDiv2(IntMul(s, b)))),
     MAX_BATCH_TOTAL_TOKENS   |-> json_dumps(IntMul(s, b))]

\* config = { ... } for batch_size b and sequence_length s
BuildConfig(b, s) ==
    [HF_MODEL_ID              |-> HF_MODEL_ID,
     MAX_CONCURRENT_REQUESTS  |-> json_dumps(PyInt(b)),
     MAX_INPUT_LENGTH         |-> json_dumps(PyInt(MAX_INPUT_LENGTH)),
     MAX_TOTAL_TOKENS         |-> json_dumps(s),
     MAX_BATCH_PREFILL_TOKENS |-> json_dumps(IntOfFloat(TrueDiv2(IntMul(s, b)))),
     MAX_BATCH_TOTAL_TOKENS   |-> json_dumps(IntMul(s, b))]

\* text[k:] of Python
SliceFrom(text, k) ==
    IF k >= Len(text) THEN <<>> ELSE SubSeq(text, k + 1, Len(text))

\* what the inference boundary answers for a prompt when the model generated gen
GeneratedText(prompt, gen, parameters) ==
    IF parameters.return_full_text THEN prompt \o gen ELSE gen

(***************************************************************************)
(* State.                                                                  *)
(*   pc      the statement that runs next                                  *)
(*   ns      the kernel's global names                                     *)
(*   stdout  what the chat cell printed                                    *)
(*   error   the uncaught exception that ended the run (at most one)       *)
(*   cloud   the hosting service: the model, the endpoint, the environment *)
(*           the provisioning call received, the text the model generated  *)
(*   raised  every exception an external call raised, in order             *)
(*   calls   the provisioning, inference and teardown calls issued         *)
(***************************************************************************)
VARIABLES pc, ns, stdout, error, cloud, raised, calls

vars == <<pc, ns, stdout, error, cloud, raised, calls>>

Bound(name) == name \in DOMAIN ns

\* ns with the names of rec (re)bound
Bind(rec) == rec @@ ns

Exc(call, exc) == [call |-> call, exc |-> exc]

Init ==
    /\ pc = "pip"
    /\ ns = [n \in {} |-> 0]
    /\ stdout = <<>>
    /\ error = <<>>
    /\ cloud = [model |-> "absent", endpoint |-> "absent", env |-> <<>>, generated |-> <<>>]
    /\ raised = <<>>
    /\ calls = <<>>

\* an external call raises and nothing catches it: the run ends with that exception
Uncaught(call, exc) ==
    /\ pc' = "aborted"
    /\ error' = <<Exc(call, exc)>>
    /\ raised' = Append(raised, Exc(call, exc))

\* !pip install ...: a shell command, whose exit status the cell ignores
PipInstall ==
    /\ pc = "pip"
    /\ pc' = "session"
    /\ UNCHANGED <<ns, stdout, error, cloud, raised, calls>>

\* sess = sagemaker.Session(); sagemaker_session_bucket = None
SessionOk ==
    /\ pc = "session"
    /\ ns' = Bind([sess |-> [default_bucket |-> "None"], sagemaker_session_bucket |-> "None"])
    /\ pc' = "default_bucket"
    /\ UNCHANGED <<stdout, error, cloud, raised, calls>>

SessionRaises ==
    /\ pc = "session"
    /\ Uncaught("Session", "ClientError")
    /\ UNCHANGED <<ns, stdout, cloud, calls>>

\* if sagemaker_session_bucket is None and sess is not None: sess.default_bucket()
DefaultBucketOk ==
    /\ pc = "default_bucket"
    /\ ns' = IF ns.sagemaker_session_bucket = "None" /\ Bound("sess")
             THEN Bind([sagemaker_session_bucket |-> "default-bucket"])
             ELSE ns
    /\ pc' = "get_execution_role"
    /\ UNCHANGED <<stdout, error, cloud, raised, calls>>

DefaultBucketRaises ==
    /\ pc = "default_bucket"
    /\ ns.sagemaker_session_bucket = "None" /\ Bound("sess")
    /\ Uncaught("default_bucket", "ClientError")
    /\ UNCHANGED <<ns, stdout, cloud, calls>>

\* try: role = sagemaker.get_execution_role()
GetExecutionRoleOk ==
    /\ pc = "get_execution_role"
    /\ ns' = Bind([role |-> "execution-role-arn"])
    /\ pc' = "session_with_bucket"
    /\ UNCHANGED <<stdout, error, cloud, raised, calls>>

\* except ValueError: the handler runs next, the exception is dropped
GetExecutionRoleValueError ==
    /\ pc = "get_execution_role"
    /\ raised' = Append(raised, Exc("get_execution_role", "ValueError"))
    /\ pc' = "iam_get_role"
    /\ UNCHANGED <<ns, stdout, error, cloud, calls>>

\* any other exception of get_execution_role passes the except clause
GetExecutionRoleRaises ==
    /\ pc = "get_execution_role"
    /\ Uncaught("get_execution_role", "ClientError")
    /\ UNCHANGED <<ns, stdout, cloud, calls>>

\* iam = boto3.client('iam'); role = iam.get_role(RoleName=...)['Role']['Arn']
IamGetRoleOk ==
    /\ pc = "iam_get_role"
    /\ ns' = Bind([iam |-> "iam-client", role |-> "sagemaker_execution_role-arn"])
    /\ pc' = "session_with_bucket"
    /\ UNCHANGED <<stdout, error, cloud, raised, calls>>

IamGetRoleRaises ==
    /\ pc = "iam_get_role"
    /\ Uncaught("iam.get_role", "ClientError")
    /\ UNCHANGED <<ns, stdout, cloud, calls>>

\* sess = sagemaker.Session(default_bucket=sagemaker_session_bucket)
SessionWithBucketOk ==
    /\ pc = "session_with_bucket"
    /\ ns' = Bind([sess |-> [default_bucket |-> ns.sagemaker_session_bucket]])
    /\ pc' = "image"
    /\ UNCHANGED <<stdout, error, cloud, raised, calls>>

SessionWithBucketRaises ==
    /\ pc = "session_with_bucket"
    /\ Uncaught("Session", "ClientError")
    /\ UNCHANGED <<ns, stdout, cloud, calls>>

\* llm_image = get_huggingface_llm_image_uri("huggingface-neuronx", version="0.0.17")
ImageUriOk ==
    /\ pc = "image"
    /\ ns' = Bind([llm_image |-> "huggingface-neuronx:0.0.17"])
    /\ pc' = "config"
    /\ UNCHANGED <<stdout, error, cloud, raised, calls>>

ImageUriRaises ==
    /\ pc = "image"
    /\ Uncaught("get_huggingface_llm_image_uri", "ValueError")
    /\ UNCHANGED <<ns, stdout, cloud, calls>>

\* the cell that sets batch_size and sequence_length, builds config and
\* creates the HuggingFaceModel with env=config
ConfigCell ==
    /\ pc = "config"
    /\ \E b \in BatchSizes, s \in SequenceLengths :
          ns' = Bind([instance_type        |-> "ml.inf2.8xlarge",
                      health_check_timeout |-> health_check_timeout,
                      batch_size           |-> b,
                      sequence_length      |-> s,
                      config               |-> BuildConfig(b, s),
                      llm_model            |-> [role      |-> ns.role,
                                                image_uri |-> ns.llm_image,
                                                env       |-> BuildConfig(b, s)]])
    /\ pc' = "deploy"
    /\ UNCHANGED <<stdout, error, cloud, raised, calls>>

\* DeployOk that writes into the env dict it deploys (config is the same dict)
DeployOkRewritesEnv ==
    /\ pc = "deploy"
    /\ calls' = Append(calls, "deploy")
    /\ LET env == [ns.llm_model.env EXCEPT !.MAX_INPUT_LENGTH = ns.llm_model.env.MAX_TOTAL_TOKENS]
       IN  /\ cloud' = [cloud EXCEPT !.model = "created", !.endpoint = "InService",
                                     !.env = <<env>>]
           /\ ns' = Bind([llm       |-> [endpoint_name |-> "endpoint"],
                          config    |-> env,
                          llm_model |-> [ns.llm_model EXCEPT !.env = env]])
    /\ pc' = "tokenizer"
    /\ UNCHANGED <<stdout, error, raised>>

\* llm = llm_model.deploy(initial_instance_count=1, instance_type=...,
\*                        container_startup_health_check_timeout=...)
DeployOk ==
    /\ pc = "deploy"
    /\ calls' = Append(calls, "deploy")
    /\ cloud' = [cloud EXCEPT !.model = "created", !.endpoint = "InService",
                              !.env = <<ns.llm_model.env>>]
    /\ ns' = Bind([llm |-> [endpoint_name |-> "endpoint"]])
    /\ pc' = "tokenizer"
    /\ UNCHANGED <<stdout, error, raised>>

\* DeployRaises inside a try/except that logs the failure and goes on
DeployRaisesSwallowed ==
    /\ pc = "deploy"
    /\ calls' = Append(calls, "deploy")
    /\ \E exc \in {"ClientError", "TimeoutError"} :
          raised' = Append(raised, Exc("deploy", exc))
    /\ ns' = Bind([llm |-> [endpoint_name |-> "None"]])
    /\ pc' = "tokenizer"
    /\ UNCHANGED <<stdout, error, cloud>>

\* provisioning fails (quota, timeout of the health check, ...): what the
\* service created before failing stays behind
DeployRaises ==
    /\ pc = "deploy"
    /\ calls' = Append(calls, "deploy")
    /\ \E exc \in {"ClientError", "TimeoutError"} : Uncaught("deploy", exc)
    /\ \/ cloud' = cloud
       \/ cloud' = [cloud EXCEPT !.model = "created", !.endpoint = "Failed",
                                 !.env = <<ns.llm_model.env>>]
    /\ UNCHANGED <<ns, stdout>>

\* tokenizer = AutoTokenizer.from_pretrained("aws-neuron/...")
TokenizerOk ==
    /\ pc = "tokenizer"
    /\ ns' = Bind([tokenizer |-> HF_MODEL_ID])
    /\ pc' = "chat"
    /\ UNCHANGED <<stdout, error, cloud, raised, calls>>

TokenizerRaises ==
    /\ pc = "tokenizer"
    /\ Uncaught("from_pretrained", "OSError")
    /\ UNCHANGED <<ns, stdout, cloud, calls>>

\* the chat cell: prompt = tokenizer.apply_chat_template(...); payload = {...};
\* chat = llm.predict({"inputs": prompt, "parameters": payload});
\* print(chat[0]["generated_text"][len(prompt):])
ChatCellOk ==
    /\ pc = "chat"
    /\ calls' = Append(calls, "predict")
    /\ \E prompt \in Texts(1, MaxPromptLen), gen \in Texts(0, MaxGenLen) :
          LET chat == <<[generated_text |-> GeneratedText(prompt, gen, payload)]>>
          IN  /\ ns' = Bind([prompt |-> prompt, payload |-> payload, chat |-> chat])
              /\ cloud' = [cloud EXCEPT !.generated = <<gen>>]
              /\ stdout' = Append(stdout, SliceFrom(chat[1].generated_text, Len(prompt)))
    /\ pc' = "delete_model"
    /\ UNCHANGED <<error, raised>>

\* predict raises: prompt and payload are bound, chat is not, nothing is printed
ChatCellRaises ==
    /\ pc = "chat"
    /\ calls' = Append(calls, "predict")
    /\ \E prompt \in Texts(1, MaxPromptLen) :
          ns' = Bind([prompt |-> prompt, payload |-> payload])
    /\ \E exc \in {"ModelError", "ReadTimeoutError"} : Uncaught("predict", exc)
    /\ UNCHANGED <<stdout, cloud>>

\* DeleteModelOk of a clean-up cell that stops after delete_model
DeleteModelOkOnly ==
    /\ pc = "delete_model"
    /\ calls' = Append(calls, "delete_model")
    /\ cloud' = [cloud EXCEPT !.model = "deleted"]
    /\ pc' = "done"
    /\ UNCHANGED <<ns, stdout, error, raised>>

\* llm.delete_model()
DeleteModelOk ==
    /\ pc = "delete_model"
    /\ calls' = Append(calls, "delete_model")
    /\ cloud' = [cloud EXCEPT !.model = "deleted"]
    /\ pc' = "delete_endpoint"
    /\ UNCHANGED <<ns, stdout, error, raised>>

DeleteModelRaises ==
    /\ pc = "delete_model"
    /\ calls' = Append(calls, "delete_model")
    /\ Uncaught("delete_model", "ClientError")
    /\ UNCHANGED <<ns, stdout, cloud>>

\* llm.delete_endpoint()
DeleteEndpointOk ==
    /\ pc = "delete_endpoint"
    /\ calls' = Append(calls, "delete_endpoint")
    /\ cloud' = [cloud EXCEPT !.endpoint = "deleted"]
    /\ pc' = "done"
    /\ UNCHANGED <<ns, stdout, error, raised>>

DeleteEndpointRaises ==
    /\ pc = "delete_endpoint"
    /\ calls' = Append(calls, "delete_endpoint")
    /\ Uncaught("delete_endpoint", "ClientError")
    /\ UNCHANGED <<ns, stdout, cloud>>

Next ==
    \/ PipInstall
    \/ SessionOk
    \/ SessionRaises
    \/ DefaultBucketOk
    \/ DefaultBucketRaises
    \/ GetExecutionRoleOk
    \/ GetExecutionRoleValueError
    \/ GetExecutionRoleRaises
    \/ IamGetRoleOk
    \/ IamGetRoleRaises
    \/ SessionWithBucketOk
    \/ SessionWithBucketRaises
    \/ ImageUriOk
    \/ ImageUriRaises
    \/ ConfigCell
    \/ DeployOk
    \/ DeployRaises
    \/ TokenizerOk
    \/ TokenizerRaises
    \/ ChatCellOk
    \/ ChatCellRaises
    \/ DeleteModelOk
    \/ DeleteModelRaises
    \/ DeleteEndpointOk
    \/ DeleteEndpointRaises

Spec == Init /\ [][Next]_vars

\* the kernel runs the cells one after the other: an enabled statement runs
FairSpec == Spec /\ WF_vars(Next)

(***************************************************************************)
(* Helpers of the properties.                                              *)
(***************************************************************************)
\* x <= y and x + y on Python integers
IntLE(x, y) == x.hi < y.hi \/ (x.hi = y.hi /\ x.lo <= y.lo)

IntAdd(x, y) ==
    [hi |-> x.hi + y.hi + (x.lo + y.lo) \div Base, lo |-> (x.lo + y.lo) % Base]

DigitOf(c) == CHOOSE d \in 0 .. 9 : DigitChars[d + 1] = c

\* the integer a decimal numeral denotes
RECURSIVE ParseInt(_)
ParseInt(str) ==
    IF Len(str) = 0
    THEN PyInt(0)
    ELSE LET front == ParseInt(SubSeq(str, 1, Len(str) - 1))
             l     == front.lo * 10 + DigitOf(str[Len(str)])
         IN  [hi |-> front.hi * 10 + l \div Base, lo |-> l % Base]

Range(seq) == {seq[i] : i \in 1 .. Len(seq)}

\* a JSON integer literal: digits only, no leading zero
IsNumeral(str) ==
    /\ DOMAIN str = 1 .. Len(str)
    /\ Len(str) >= 1
    /\ \A i \in 1 .. Len(str) : str[i] \in Range(DigitChars)
    /\ (Len(str) > 1 => str[1] # "0")

ConfigKeys ==
    {"HF_MODEL_ID", "MAX_CONCURRENT_REQUESTS", "MAX_INPUT_LENGTH", "MAX_TOTAL_TOKENS",
     "MAX_BATCH_PREFILL_TOKENS", "MAX_BATCH_TOTAL_TOKENS"}

WellFormedEnv(env) ==
    /\ DOMAIN env = ConfigKeys
    /\ env.HF_MODEL_ID = HF_MODEL_ID
    /\ \A k \in ConfigKeys \ {"HF_MODEL_ID"} :
          IsNumeral(env[k]) /\ json_dumps(ParseInt(env[k])) = env[k]

InvalidConfiguration == Exc("config", "InvalidConfiguration")

RoleValueError == Exc("get_execution_role", "ValueError")

\* batch_size and sequence_length are positive and leave room for MAX_INPUT_LENGTH
ValidInputs ==
    /\ Bound("batch_size")
    /\ ns.batch_size > 0
    /\ IntLE(PyInt(MAX_INPUT_LENGTH), ns.sequence_length)

CallOrder == <<"deploy", "predict", "delete_model", "delete_endpoint">>

TornDown == cloud.model = "deleted" /\ cloud.endpoint = "deleted"

(***************************************************************************)
(* C1.  For every positive batch_size b and sequence_length s the          *)
(* configuration has MAX_CONCURRENT_REQUESTS = b, MAX_TOTAL_TOKENS = s,    *)
(* MAX_BATCH_PREFILL_TOKENS = floor(b*s/2), MAX_BATCH_TOTAL_TOKENS = b*s,  *)
(* and b = 4, s = 2048 gives 4, 2048, 4096, 8192.  The code divides in     *)
(* floating point: from b*s = 2^53 + 3 on, int(b*s / 2) is not the floor.  *)
(***************************************************************************)
DerivedLimits(b, s, cfg) ==
    /\ ParseInt(cfg.MAX_CONCURRENT_REQUESTS) = PyInt(b)
    /\ ParseInt(cfg.MAX_TOTAL_TOKENS) = s
    /\ ParseInt(cfg.MAX_BATCH_PREFILL_TOKENS) = IntHalf(IntMul(s, b))
    /\ ParseInt(cfg.MAX_BATCH_TOTAL_TOKENS) = IntMul(s, b)
    /\ (b = 4 /\ s = PyInt(2048) =>
           /\ cfg.MAX_CONCURRENT_REQUESTS = <<"4">>
           /\ cfg.MAX_TOTAL_TOKENS = <<"2", "0", "4", "8">>
           /\ cfg.MAX_BATCH_PREFILL_TOKENS = <<"4", "0", "9", "6">>
           /\ cfg.MAX_BATCH_TOTAL_TOKENS = <<"8", "1", "9", "2">>)

C1_DerivedLimits ==
    (Bound("config") /\ ns.batch_size > 0 /\ ns.sequence_length # PyInt(0)) =>
        DerivedLimits(ns.batch_size, ns.sequence_length, ns.config)

\* C1 where the code agrees with it: the same limits while b*s has at most 53
\* bits, where the float quotient is exact
C1_DerivedLimitsWithin53Bits ==
    (Bound("config") /\ ns.batch_size > 0 /\ ns.sequence_length # PyInt(0)
     /\ BitLength(IntMul(ns.sequence_length, ns.batch_size)) <= DBL_MANT_DIG) =>
        DerivedLimits(ns.batch_size, ns.sequence_length, ns.config)

C1_Within53BitsWitness ==
    /\ Bound("config")
    /\ ns.batch_size = NotebookBatchSize
    /\ ns.sequence_length = PyInt(NotebookSequenceLength)
    /\ ns.config.MAX_BATCH_PREFILL_TOKENS = <<"4", "0", "9", "6">>

(***************************************************************************)
(* C2.  Every configuration built (from positive inputs) has max_input_length <= sequence_length, *)
(* and building one with a larger max_input_length fails with              *)
(* InvalidConfiguration: no record is produced or handed to provisioning.  *)
(* The cell validates nothing.                                             *)
(***************************************************************************)
C2_InputLengthValidated ==
    /\ (Bound("config") /\ ns.batch_size > 0 /\ ns.sequence_length # PyInt(0)) =>
          IntLE(ParseInt(ns.config.MAX_INPUT_LENGTH), ns.sequence_length)
    /\ (pc \notin {"pip", "session", "default_bucket", "get_execution_role",
                   "iam_get_role", "session_with_bucket", "image", "config"}
        /\ Bound("sequence_length")
        /\ ns.batch_size > 0 /\ ns.sequence_length # PyInt(0)
        /\ ~IntLE(PyInt(MAX_INPUT_LENGTH), ns.sequence_length)) =>
          /\ ~Bound("config")
          /\ ~Bound("llm_model")
          /\ cloud.env = <<>>
          /\ error = <<InvalidConfiguration>>

(***************************************************************************)
(* C3.  Building the configuration with batch_size = 0 or                  *)
(* sequence_length = 0 fails with InvalidConfiguration and nothing reaches *)
(* the provisioning call.  The cell builds and deploys such a record.      *)
(***************************************************************************)
C3_ZeroRejected ==
    (Bound("batch_size") /\ (ns.batch_size = 0 \/ ns.sequence_length = PyInt(0))) =>
        /\ error = <<InvalidConfiguration>>
        /\ ~Bound("llm_model")
        /\ "deploy" \notin Range(calls)

(***************************************************************************)
(* C4.  The record handed to provisioning has exactly the six keys, and    *)
(* every value but HF_MODEL_ID is the string encoding of an integer.       *)
(***************************************************************************)
C4_ProvisioningPayload ==
    /\ Bound("llm_model") => WellFormedEnv(ns.llm_model.env)
    /\ cloud.env # <<>> => WellFormedEnv(cloud.env[1])

C4_Witness ==
    /\ cloud.env # <<>>
    /\ cloud.endpoint = "InService"
    /\ ns.batch_size = 3
    /\ ns.sequence_length = PyInt(MAX_INPUT_LENGTH + 1)
    /\ cloud.env[1].MAX_BATCH_PREFILL_TOKENS = <<"2", "2", "6", "9">>

(***************************************************************************)
(* C5.  As claimed: every failure of an external call is surfaced          *)
(* unmodified, none is caught and recovered from locally.                  *)
(***************************************************************************)
C5_AllFailuresSurfaced ==
    \A i \in 1 .. Len(raised) : pc = "aborted" /\ error = <<raised[i]>>

(***************************************************************************)
(* C5, amended.  Every failure of an external call ends the run and is the *)
(* exception surfaced, unmodified, except a ValueError of                  *)
(* get_execution_role: that one is caught, and the run continues with the  *)
(* role looked up through IAM.                                             *)
(***************************************************************************)
C5_FailuresSurfacedExceptRoleValueError ==
    /\ \A i \in 1 .. Len(raised) :
          \/ raised[i] = RoleValueError
          \/ i = Len(raised) /\ pc = "aborted" /\ error = <<raised[i]>>
    /\ (pc = "aborted" \/ error # <<>>) =>
          raised # <<>> /\ error = <<raised[Len(raised)]>> /\ pc = "aborted"
    /\ (RoleValueError \in Range(raised) /\ Bound("role")) =>
          ns.role = "sagemaker_execution_role-arn"

C5_Witness ==
    /\ raised = <<RoleValueError, Exc("deploy", "TimeoutError")>>
    /\ error = <<Exc("deploy", "TimeoutError")>>
    /\ ns.role = "sagemaker_execution_role-arn"

(***************************************************************************)
(* C6.  The configuration is handed as built to provisioning and no later  *)
(* step changes it: the env of the model and the env the provisioning call *)
(* received are the record built from batch_size and sequence_length, and  *)
(* once config is bound every step leaves it, and the env, as they are.    *)
(***************************************************************************)
C6_ConfigImmutable ==
    /\ [](Bound("llm_model") =>
             /\ ns.config = BuildConfig(ns.batch_size, ns.sequence_length)
             /\ ns.llm_model.env = ns.config
             /\ (cloud.env # <<>> => cloud.env = <<ns.config>>))
    /\ [][Bound("config") =>
             /\ Bound("config")'
             /\ ns'.config = ns.config
             /\ ns'.batch_size = ns.batch_size
             /\ ns'.sequence_length = ns.sequence_length
             /\ ns'.llm_model = ns.llm_model
             /\ (cloud.env # <<>> => cloud'.env = cloud.env)]_vars

C6_Witness ==
    /\ pc = "done"
    /\ calls = CallOrder
    /\ cloud.env = <<ns.config>>
    /\ ns.batch_size = NotebookBatchSize
    /\ ns.sequence_length = PyInt(NotebookSequenceLength)

C9_RequestFitsBudget ==
    (Bound("payload") /\ cloud.env # <<>> /\ ValidInputs) =>
        IntLE(IntAdd(PyInt(ns.payload.max_new_tokens),
                     ParseInt(cloud.env[1].MAX_INPUT_LENGTH)),
              ParseInt(cloud.env[1].MAX_TOTAL_TOKENS))

(***************************************************************************)
(* C9, amended.  With a sequence_length of at least 1768 (the notebook's   *)
(* is 2048), max_new_tokens plus MAX_INPUT_LENGTH does not exceed the      *)
(* MAX_TOTAL_TOKENS of the deployed configuration.                         *)
(***************************************************************************)
C9_RequestFitsBudgetFrom1768 ==
    (Bound("payload") /\ cloud.env # <<>>
     /\ IntLE(PyInt(1768), ns.sequence_length)) =>
        IntLE(IntAdd(PyInt(ns.payload.max_new_tokens),
                     ParseInt(cloud.env[1].MAX_INPUT_LENGTH)),
              ParseInt(cloud.env[1].MAX_TOTAL_TOKENS))

C9_Witness ==
    /\ Bound("payload")
    /\ "predict" \in Range(calls)
    /\ cloud.env # <<>>
    /\ ns.sequence_length = PyInt(1768)
    /\ cloud.env[1].MAX_TOTAL_TOKENS = <<"1", "7", "6", "8">>

(***************************************************************************)
(* C10.  With return_full_text False the text printed after inference is   *)
(* exactly what the model generated.  The cell cuts len(prompt) characters *)
(* off a generated_text that holds no prompt.                              *)
(***************************************************************************)
C10_PrintedIsGenerated ==
    (cloud.generated # <<>> /\ ~ns.payload.return_full_text /\ ValidInputs) =>
        stdout = <<cloud.generated[1]>>

=============================================================================
